---- MODULE Spec2Model ----
(***************************************************************************)
(* A model of the BrokerConsumer of the kafka Go bindings: the consume     *)
(* pass (consumeWithConn), its three drivers (Consume, ConsumeUntilQuit,   *)
(* ConsumeOnChannel) and the offset query (GetOffsets).                    *)
(*                                                                         *)
(* The broker side (connect, readResponse, the request encoders) and the   *)
(* message codec (Decode) are not part of the consumer's source file; they *)
(* are modelled from the wire format the specification gives.              *)
(***************************************************************************)
EXTENDS Integers, Sequences, FiniteSets, TLC

(***************************************************************************)
(* Bounds of the model.                                                    *)
(***************************************************************************)
\* number of messages in the broker's log
NumMsgs == 3
\* number of handler calls that the history handled keeps (at least NumMsgs)
MaxHandled == 3
\* the log lines of a call are counted up to this number
MaxLogged == 2
\* total number of top-level calls made on the consumer over a behaviour
MaxCalls == 2

(***************************************************************************)
(* Bytes and big-endian integers.                                          *)
(***************************************************************************)
Min(a, b) == IF a < b THEN a ELSE b

\* the bytes of s from 0-based position p to the end: the Go slice s[p:]
SliceFrom(s, p) == SubSeq(s, p + 1, Len(s))

\* binary.BigEndian.Uint32 / Uint64 of the first n bytes of b
RECURSIVE BigEndian(_, _)
BigEndian(b, n) ==
    IF n = 0 THEN 0 ELSE BigEndian(b, n - 1) * 256 + b[n]

\* the n-byte big-endian encoding of v
RECURSIVE PutBigEndian(_, _)
PutBigEndian(v, n) ==
    IF n = 0 THEN << >> ELSE PutBigEndian(v \div 256, n - 1) \o << v % 256 >>

(***************************************************************************)
(* The broker's log: NumMsgs message frames                                *)
(*   [4-byte length][4-byte checksum][payload bytes],                      *)
(* length = 4 + payload length.  Message i carries i % 2 payload bytes.    *)
(***************************************************************************)
MsgPayload(i) == [k \in 1..(i % 2) |-> 16 + i]
MsgChecksum(i) == << i, i + 1, i + 2, i + 3 >>
Frame(i) == PutBigEndian(4 + Len(MsgPayload(i)), 4) \o MsgChecksum(i) \o MsgPayload(i)

RECURSIVE LogUpTo(_)
LogUpTo(n) == IF n = 0 THEN << >> ELSE LogUpTo(n - 1) \o Frame(n)

Log == LogUpTo(NumMsgs)

\* the byte positions of the log at which a frame starts, and the log's end
FrameStarts == { Len(LogUpTo(n)) : n \in 0..NumMsgs }

\* the length (4-byte prefix + stored length) of the frame that starts at position p
FrameLenAt(p) == 4 + BigEndian(SliceFrom(Log, p), 4)

(***************************************************************************)
(* The message codec.                                                      *)
(***************************************************************************)
Null == [null |-> TRUE]

\* Decode(buffer): the first 4 bytes are the stored length (checksum +
\* payload, without the length field); a buffer shorter than the declared
\* length is a decode failure.
Decode(packet) ==
    IF Len(packet) < 4 THEN Null
    ELSE LET stored == BigEndian(packet, 4) IN
         IF stored > Len(packet) - 4 THEN Null
         ELSE [null |-> FALSE,
               totalLength |-> stored,
               checksum |-> SubSeq(packet, 5, Min(8, 4 + stored)),
               payload |-> SubSeq(packet, 9, 4 + stored)]

\* readResponse(conn) on the bytes of one response frame
\* [4-byte total length][payload]: (length, payload), or an error when the
\* stream ends inside the frame.
readResponse(frame) ==
    IF Len(frame) < 4 THEN [err |-> "eof", length |-> 0, payload |-> << >>]
    ELSE LET expected == BigEndian(frame, 4) IN
         IF Len(frame) - 4 < expected
         THEN [err |-> "io", length |-> 0, payload |-> << >>]
         ELSE [err |-> "nil", length |-> expected,
               payload |-> SubSeq(frame, 5, 4 + expected)]

\* the request of EncodeConsumeRequest(offset, maxSize), as the broker reads it
EncodeConsumeRequest(off, max) == [offset |-> off, maxSize |-> max]

\* The response frames a broker may send to a consume request: the bytes
\* of the log from the requested offset on, at most maxSize of them, cut
\* at any byte (a fetch of a byte range may end inside a frame).
ConsumeResponses(req) ==
    { PutBigEndian(n, 4) \o SubSeq(Log, req.offset + 1, req.offset + n) :
        n \in 0..Min(req.maxSize, Len(Log) - req.offset) }

(***************************************************************************)
(* The state.                                                              *)
(***************************************************************************)
VARIABLES
    offset,         \* BrokerConsumer.offset: the cursor
    maxSize,        \* BrokerConsumer.maxSize
    base,           \* the offset given at construction (history)
    op,             \* the call in progress: "idle", "Consume", "ConsumeUntilQuit",
                    \* "ConsumeOnChannel", or "panic" once the process has crashed
    callerPc,       \* the caller's position in that call
    ret,            \* what the last call returned
    lastCall,       \* the name of the last call that returned
    calls,          \* number of calls started
    conn,           \* the call's connection: "none", "open", "closed"
    closes,         \* number of conn.Close() calls on the call's connection
    ppc,            \* position in consumeWithConn: "none", "write", "read", "scan", "handler", "ret"
    msg,            \* consumeWithConn: the message decoded in the iteration in progress (its offset), or Null
    request,        \* the consume request written to the connection
    length,         \* consumeWithConn: length of the response
    payload,        \* consumeWithConn: payload of the response
    currentOffset,  \* consumeWithConn: currentOffset
    pnum,           \* consumeWithConn: num
    perr,           \* consumeWithConn: err, "nil", "io", "eof" or "decode"
    preOffset,      \* the cursor when the pass started (history)
    passDelivered,  \* the offsets handed to the handler in this pass (history)
    handled,        \* the offsets of the last MaxHandled messages handed to a handler, in order (history)
    pollerPc,       \* the polling goroutine: "none", "check", "pass", "sleep", "send", "exited"
    watcherPc,      \* the goroutine waiting on quit: "none", "wait", "set", "exited"
    quit,           \* number of values waiting in the quit channel
    quitReceived,   \* ConsumeUntilQuit: quitReceived
    done,           \* number of values in the done channel (capacity 1)
    num,            \* ConsumeOnChannel: num
    msgClosed,      \* ConsumeOnChannel: msgChan has been closed
    pollErr,        \* ConsumeOnChannel: err of the polling goroutine
    logged,         \* number of errors written to the log by the call in progress, up to MaxLogged
    offsets,        \* the result of the last GetOffsets call
    offMax,         \* maxNumOffsets of the last GetOffsets call
    offPayload      \* the response payload of the last GetOffsets call

consumerVars == << offset, maxSize, base >>
callVars == << op, callerPc, ret, lastCall, calls >>
connVars == << conn, closes >>
passVars == << ppc, msg, request, length, payload, currentOffset, pnum, perr,
               preOffset, passDelivered >>
taskVars == << pollerPc, watcherPc, quit, quitReceived, done >>
chanVars == << num, msgClosed, pollErr >>

vars == << consumerVars, callVars, connVars, passVars, taskVars, chanVars,
           handled, logged, offsets, offMax, offPayload >>

NoRet == [num |-> 0, err |-> "none"]

\* the base offsets a caller constructs the consumer with: the starts of
\* the first two frames of the log
BaseOffsets == { 0, Len(Frame(1)) }

\* the maxSize values a caller constructs the consumer with: room for the
\* whole log
FetchSizes == { Len(Log) }

\* NewBrokerConsumer(hostname, topic, partition, offset, maxSize)
NewBrokerConsumer(off, max) == [offset |-> off, maxSize |-> max]

\* NewBrokerOffsetConsumer(hostname, topic, partition)
NewBrokerOffsetConsumer == [offset |-> 0, maxSize |-> 0]

Init ==
    /\ \E c \in { NewBrokerConsumer(o, m) : o \in BaseOffsets, m \in FetchSizes }
                \cup { NewBrokerOffsetConsumer } :
          /\ offset = c.offset
          /\ maxSize = c.maxSize
          /\ base = c.offset
    /\ op = "idle" /\ callerPc = "none" /\ ret = NoRet /\ lastCall = "none"
    /\ calls = 0
    /\ conn = "none" /\ closes = 0
    /\ ppc = "none" /\ request = EncodeConsumeRequest(0, 0) /\ length = 0
    /\ payload = << >> /\ currentOffset = 0 /\ pnum = 0 /\ perr = "nil"
    /\ preOffset = 0 /\ passDelivered = << >> /\ msg = Null
    /\ handled = << >>
    /\ pollerPc = "none" /\ watcherPc = "none" /\ quit = 0
    /\ quitReceived = FALSE /\ done = 0
    /\ num = 0 /\ msgClosed = FALSE /\ pollErr = "nil"
    /\ logged = 0
    /\ offsets = << >>
    /\ offMax = 0
    /\ offPayload = << >>

(***************************************************************************)
(* consumeWithConn, one step at a time.                                    *)
(***************************************************************************)
\* the loop condition  currentOffset <= uint64(length-4): length is a
\* uint32, so length-4 wraps modulo 2^32 when length < 4.  The 32-bit
\* difference is kept as two 16-bit halves << high, low >>.
U32Sub(a, b) ==
    LET d == a - b IN
    IF d >= 0 THEN << d \div 65536, d % 65536 >> ELSE << 65535, 65536 + d >>

LoopCond(cur, len) ==
    LET bound == U32Sub(len, 4)
        c == << cur \div 65536, cur % 65536 >>
    IN  c[1] < bound[1] \/ (c[1] = bound[1] /\ c[2] <= bound[2])

\* msg.offset = consumer.offset + currentOffset
MsgOffset(off, cur) == off + cur

\* variant: the scan steps over the stored length only, not the 4-byte prefix
NextCurrentOffsetNoPrefix(cur, totalLength) == cur + totalLength

\* currentOffset += uint64(4 + msg.totalLength)
NextCurrentOffset(cur, totalLength) == cur + (4 + totalLength)

\* variant: the cursor is assigned the bytes of this pass instead of advanced by them
AdvanceCursorAssign(off, cur) == cur

\* consumer.offset += currentOffset
AdvanceCursor(off, cur) == off + cur

\* the scan entered for every response that has any byte at all
HasMessagesNonEmpty(len) == len > 0

\* if length > 2
HasMessages(len) == len > 2

\* begin a pass: the state of consumeWithConn at its first statement
StartPass ==
    /\ ppc' = "write"
    /\ msg' = Null
    /\ preOffset' = offset
    /\ passDelivered' = << >>
    /\ pnum' = 0 /\ perr' = "nil" /\ currentOffset' = 0
    /\ length' = 0 /\ payload' = << >>
    /\ request' = request

\* the caller of consumeWithConn has taken its results: its frame is gone
EndPass ==
    /\ ppc' = "none"
    /\ msg' = Null
    /\ request' = EncodeConsumeRequest(0, 0)
    /\ length' = 0 /\ payload' = << >> /\ currentOffset' = 0
    /\ pnum' = 0 /\ perr' = "nil"
    /\ preOffset' = 0 /\ passDelivered' = << >>

PassReturn(n, e) ==
    /\ ppc' = "ret"
    /\ pnum' = n
    /\ perr' = e

\* conn.Write(EncodeConsumeRequest(offset, maxSize)) succeeds
PassWrite ==
    /\ ppc = "write" /\ op # "panic"
    /\ msg' = msg
    /\ conn = "open"
    /\ request' = EncodeConsumeRequest(offset, maxSize)
    /\ ppc' = "read"
    /\ UNCHANGED << length, payload, currentOffset, pnum, perr, preOffset,
                    passDelivered >>
    /\ UNCHANGED << consumerVars, callVars, connVars, taskVars, chanVars,
                    handled, logged, offsets, offMax, offPayload >>

\* conn.Write fails (always, on a closed connection): return -1, err
PassWriteFail ==
    /\ ppc = "write" /\ op # "panic"
    /\ msg' = msg
    /\ PassReturn(-1, "io")
    /\ UNCHANGED << request, length, payload, currentOffset, preOffset,
                    passDelivered >>
    /\ UNCHANGED << consumerVars, callVars, connVars, taskVars, chanVars,
                    handled, logged, offsets, offMax, offPayload >>

\* readResponse succeeds
PassRead ==
    /\ ppc = "read" /\ op # "panic"
    /\ msg' = msg
    /\ conn = "open"
    /\ \E frame \in ConsumeResponses(request) :
          LET r == readResponse(frame) IN
          /\ r.err = "nil"
          /\ length' = r.length
          /\ payload' = r.payload
          /\ currentOffset' = 0
          /\ IF HasMessages(r.length)
               THEN ppc' = "scan" /\ UNCHANGED << pnum, perr >>
               ELSE PassReturn(0, "nil")
    /\ UNCHANGED << request, preOffset, passDelivered >>
    /\ UNCHANGED << consumerVars, callVars, connVars, taskVars, chanVars,
                    handled, logged, offsets, offMax, offPayload >>

\* readResponse fails, with io.EOF or with another error: return -1, err
PassReadFail ==
    /\ ppc = "read" /\ op # "panic"
    /\ msg' = msg
    /\ \E e \in IF conn = "open" THEN {"io", "eof"} ELSE {"io"} :
          PassReturn(-1, e)
    /\ UNCHANGED << request, length, payload, currentOffset, preOffset,
                    passDelivered >>
    /\ UNCHANGED << consumerVars, callVars, connVars, taskVars, chanVars,
                    handled, logged, offsets, offMax, offPayload >>

\* variant: a failed Decode still advances the cursor to the last decoded frame
PassDecodeFailAdvancing ==
    /\ ppc = "scan" /\ op # "panic"
    /\ msg' = msg
    /\ currentOffset <= length - 4 \/ length < 4
    /\ Decode(SliceFrom(payload, currentOffset)).null
    /\ ppc' = "ret" /\ perr' = "decode"
    /\ offset' = offset + currentOffset
    /\ UNCHANGED << maxSize, base, pnum >>
    /\ UNCHANGED << request, length, payload, currentOffset, preOffset,
                    passDelivered >>
    /\ UNCHANGED << callVars, connVars, taskVars, chanVars,
                    handled, logged, offsets, offMax, offPayload >>

\* one iteration of the scan whose Decode fails:
\* return num, errors.New("Error Decoding Message")
PassDecodeFail ==
    /\ ppc = "scan" /\ op # "panic"
    /\ msg' = msg
    /\ LoopCond(currentOffset, length)
    /\ Decode(SliceFrom(payload, currentOffset)).null
    /\ PassReturn(pnum, "decode")
    /\ UNCHANGED << request, length, payload, currentOffset, preOffset,
                    passDelivered >>
    /\ UNCHANGED << consumerVars, callVars, connVars, taskVars, chanVars,
                    handled, logged, offsets, offMax, offPayload >>

\* the history of handler calls keeps the last MaxHandled of them
Recent(s) == IF Len(s) <= MaxHandled THEN s ELSE Tail(s)

\* one more line written to the log
Logged(n) == IF n < MaxLogged THEN n + 1 ELSE n

\* handlerFunc(msg) of Consume and ConsumeUntilQuit, a function of the
\* caller: the model records the offset of the message it is given.
\* The handler of ConsumeOnChannel sends msg on msgChan, and then num += 1.
Handler(msgOffset) ==
    /\ handled' = Recent(Append(handled, msgOffset))
    /\ passDelivered' = Append(passDelivered, msgOffset)
    /\ num' = IF op = "ConsumeOnChannel" THEN num + 1 ELSE num

\* one iteration of the scan, up to the call of the handler: Decode
\* succeeds, msg.offset and currentOffset are assigned
PassDecode ==
    /\ ppc = "scan" /\ op # "panic"
    /\ LoopCond(currentOffset, length)
    /\ LET m == Decode(SliceFrom(payload, currentOffset)) IN
       /\ ~ m.null
       /\ msg' = [null |-> FALSE, offset |-> MsgOffset(offset, currentOffset)]
       /\ currentOffset' = NextCurrentOffset(currentOffset, m.totalLength)
    /\ ppc' = "handler"
    /\ UNCHANGED << request, length, payload, pnum, perr, preOffset,
                    passDelivered >>
    /\ UNCHANGED << consumerVars, callVars, connVars, taskVars, chanVars,
                    handled, logged, offsets, offMax, offPayload >>

\* handlerFunc(msg) is over, num += 1.  The handler runs for as long as it
\* takes; in ConsumeOnChannel it waits in msgChan <- msg until the message
\* is received.
PassHandle ==
    /\ ppc = "handler" /\ op # "panic"
    /\ ~ (op = "ConsumeOnChannel" /\ msgClosed)
    /\ Handler(msg.offset)
    /\ pnum' = pnum + 1
    /\ msg' = Null
    /\ ppc' = "scan"
    /\ UNCHANGED << request, length, payload, currentOffset, perr, preOffset >>
    /\ UNCHANGED << consumerVars, callVars, connVars, taskVars, msgClosed,
                    pollErr, logged, offsets, offMax, offPayload >>

\* the handler of ConsumeOnChannel once the caller has closed msgChan: the
\* send on the closed channel panics, also when it was already waiting
PassHandleClosed ==
    /\ ppc = "handler" /\ op = "ConsumeOnChannel"
    /\ msgClosed
    /\ op' = "panic"
    /\ UNCHANGED << callerPc, ret, lastCall, calls >>
    /\ UNCHANGED << consumerVars, connVars, passVars, taskVars, chanVars,
                    handled, logged, offsets, offMax, offPayload >>

\* the scan is over: update the cursor for the next consumption, return num, nil
PassScanExit ==
    /\ ppc = "scan" /\ op # "panic"
    /\ msg' = msg
    /\ ~ LoopCond(currentOffset, length)
    /\ offset' = AdvanceCursor(offset, currentOffset)
    /\ PassReturn(pnum, "nil")
    /\ UNCHANGED << maxSize, base >>
    /\ UNCHANGED << request, length, payload, currentOffset, preOffset,
                    passDelivered >>
    /\ UNCHANGED << callVars, connVars, taskVars, chanVars,
                    handled, logged, offsets, offMax, offPayload >>

(***************************************************************************)
(* Consume: one pass on a connection of its own.                           *)
(***************************************************************************)
\* a call may start when none is in progress
CanCall == op = "idle" /\ calls < MaxCalls

\* A call starts: the goroutines, channels and results of the call before
\* it are gone.
ResetTasks ==
    /\ quit' = 0 /\ quitReceived' = FALSE /\ done' = 0
    /\ num' = 0 /\ msgClosed' = FALSE /\ pollErr' = "nil"

ResetOffsets ==
    /\ offsets' = << >> /\ offMax' = 0 /\ offPayload' = << >>

FreshCall(name) ==
    /\ op' = name
    /\ calls' = calls + 1
    /\ closes' = 0
    /\ logged' = 0
    /\ ResetTasks
    /\ ResetOffsets
    /\ ret' = NoRet /\ lastCall' = "none"

\* a call that starts its polling goroutine although connect has failed
ConnectFailSpawning(name, n) ==
    /\ CanCall
    /\ calls' = calls + 1
    /\ op' = "idle"
    /\ callerPc' = "none"
    /\ ret' = [num |-> n, err |-> "conn"]
    /\ lastCall' = name
    /\ conn' = "none" /\ closes' = 0 /\ logged' = 0
    /\ ResetTasks
    /\ ResetOffsets
    /\ pollerPc' = "check" /\ watcherPc' = "none"
    /\ UNCHANGED << consumerVars, passVars, handled >>

\* a call that fails in connect: return (n, err)
ConnectFail(name, n) ==
    /\ CanCall
    /\ calls' = calls + 1
    /\ op' = "idle"
    /\ callerPc' = "none"
    /\ ret' = [num |-> n, err |-> "conn"]
    /\ lastCall' = name
    /\ conn' = "none" /\ closes' = 0 /\ logged' = 0
    /\ ResetTasks
    /\ ResetOffsets
    /\ pollerPc' = "none" /\ watcherPc' = "none"
    /\ UNCHANGED << consumerVars, passVars, handled >>

\* a call returns (n, e) to its caller
Return(name, n, e) ==
    /\ op' = "idle"
    /\ callerPc' = "none"
    /\ ret' = [num |-> n, err |-> e]
    /\ lastCall' = name

\* consumer.broker.connect() succeeds; consumeWithConn is called
ConsumeCall ==
    /\ CanCall
    /\ FreshCall("Consume")
    /\ conn' = "open"
    /\ callerPc' = "pass"
    /\ StartPass
    /\ pollerPc' = "none" /\ watcherPc' = "none"
    /\ UNCHANGED << consumerVars, handled >>

\* consumer.broker.connect() fails: return -1, err
ConsumeConnectFail == ConnectFail("Consume", -1)

\* Consume with conn.Close() called after the pass on the success path only
\* instead of deferred
ConsumeReturnNoDefer ==
    /\ op = "Consume" /\ callerPc = "pass" /\ ppc = "ret"
    /\ logged' = IF perr # "nil" THEN Logged(logged) ELSE logged
    /\ Return("Consume", pnum, perr)
    /\ conn' = IF perr = "nil" THEN "closed" ELSE conn
    /\ closes' = IF perr = "nil" THEN closes + 1 ELSE closes
    /\ EndPass
    /\ calls' = calls
    /\ UNCHANGED << consumerVars, taskVars, chanVars,
                    handled, offsets, offMax, offPayload >>

\* consumeWithConn has returned: log the error, return num, err; the
\* deferred conn.Close() runs
ConsumeReturn ==
    /\ op = "Consume" /\ callerPc = "pass" /\ ppc = "ret"
    /\ logged' = IF perr # "nil" THEN Logged(logged) ELSE logged
    /\ Return("Consume", pnum, perr)
    /\ conn' = "closed" /\ closes' = closes + 1
    /\ EndPass
    /\ calls' = calls
    /\ UNCHANGED << consumerVars, taskVars, chanVars,
                    handled, offsets, offMax, offPayload >>

(***************************************************************************)
(* GetOffsets.                                                             *)
(***************************************************************************)
\* the request of EncodeOffsetRequest(time, maxNumOffsets), as the broker reads it
EncodeOffsetRequest(time, maxNumOffsets) ==
    [time |-> time, maxNumOffsets |-> maxNumOffsets]

\* the time marker of the callers: -1, the latest offsets
TimeMarkers == { -1 }

\* the valid offsets of the log, in descending order
RECURSIVE ValidOffsets(_)
ValidOffsets(n) ==
    IF n = 0 THEN << >> ELSE << Len(LogUpTo(n - 1)) >> \o ValidOffsets(n - 1)

RECURSIVE PutOffsets(_)
PutOffsets(os) ==
    IF os = << >> THEN << >> ELSE PutBigEndian(Head(os), 8) \o PutOffsets(Tail(os))

\* [4-byte count][8-byte offsets]: the count c, the first n valid
\* offsets, and e trailing bytes
OffsetPayload(c, n, e) ==
    PutBigEndian(c, 4) \o PutOffsets(SubSeq(ValidOffsets(NumMsgs), 1, n))
        \o [k \in 1..e |-> 0]

\* The payloads a broker may answer an offset request with: the well-formed
\* ones and, from a broker that does not keep to the format, a count that
\* is larger than the number of offsets, trailing bytes after the offsets,
\* and payloads too short to hold a count.
OffsetPayloads ==
    { OffsetPayload(n, n, 0) : n \in 0..NumMsgs }
    \cup { OffsetPayload(NumMsgs, n, 0) : n \in 0..NumMsgs }
    \cup { OffsetPayload(NumMsgs, n, 5) : n \in 0..NumMsgs }
    \cup { << >>, << 0, 0 >> }

\* the loop of GetOffsets from currentOffset = cur with offsets = acc;
\* binary.BigEndian.Uint64 panics on a slice of fewer than 8 bytes
RECURSIVE OffsetsLoop(_, _, _, _, _)
OffsetsLoop(pl, len, numOffsets, cur, acc) ==
    IF cur < len - 4 /\ Len(acc) < numOffsets
    THEN IF Len(pl) - cur < 8
         THEN [panic |-> TRUE, offsets |-> acc]
         ELSE OffsetsLoop(pl, len, numOffsets, cur + 8,
                          Append(acc, BigEndian(SliceFrom(pl, cur), 8)))
    ELSE [panic |-> FALSE, offsets |-> acc]

\* the decoding without the test of length: binary.BigEndian.Uint32 panics
\* on a payload of fewer than 4 bytes
DecodeOffsetsUnguarded(pl, len, maxNumOffsets) ==
    IF len >= 4
    THEN OffsetsLoop(pl, len, BigEndian(pl, 4), 4, << >>)
    ELSE [panic |-> TRUE, offsets |-> << >>]

\* the decoding of GetOffsets: if length > 4, the count and then the offsets
DecodeOffsets(pl, len, maxNumOffsets) ==
    IF len > 4
    THEN OffsetsLoop(pl, len, BigEndian(pl, 4), 4, << >>)
    ELSE [panic |-> FALSE, offsets |-> << >>]

\* The runs of GetOffsets(time, maxNumOffsets) in which connect, Write and
\* readResponse succeed: the arguments, the response read, and the outcome
\* of the decoding.
GetOffsetsRuns ==
    { [maxNumOffsets |-> EncodeOffsetRequest(time, m).maxNumOffsets,
       response |-> readResponse(PutBigEndian(Len(pl), 4) \o pl),
       decoded |-> LET r == readResponse(PutBigEndian(Len(pl), 4) \o pl)
                   IN  DecodeOffsets(r.payload, r.length, m)] :
        time \in TimeMarkers, m \in 0..NumMsgs, pl \in OffsetPayloads }

\* GetOffsets returns offsets, err; the deferred conn.Close() runs
GetOffsets ==
    /\ CanCall
    /\ \E run \in GetOffsetsRuns :
          /\ run.response.err = "nil"
          /\ ~ run.decoded.panic
          /\ offMax' = run.maxNumOffsets
          /\ offPayload' = run.response.payload
          /\ offsets' = run.decoded.offsets
          /\ Return("GetOffsets", Len(run.decoded.offsets), "nil")
    /\ conn' = "closed" /\ closes' = 1
    /\ calls' = calls + 1
    /\ logged' = 0
    /\ ResetTasks
    /\ pollerPc' = "none" /\ watcherPc' = "none"
    /\ UNCHANGED << consumerVars, passVars, handled >>

\* GetOffsets on a response whose decoding reads past the end of the
\* payload: the process panics (the deferred conn.Close() runs)
GetOffsetsPanic ==
    /\ CanCall
    /\ \E run \in GetOffsetsRuns :
          /\ run.response.err = "nil"
          /\ run.decoded.panic
          /\ offMax' = run.maxNumOffsets
          /\ offPayload' = run.response.payload
          /\ offsets' = run.decoded.offsets
    /\ op' = "panic"
    /\ conn' = "closed" /\ closes' = 1
    /\ calls' = calls + 1
    /\ logged' = 0
    /\ ResetTasks
    /\ pollerPc' = "none" /\ watcherPc' = "none"
    /\ UNCHANGED << callerPc, ret, lastCall >>
    /\ UNCHANGED << consumerVars, passVars, handled >>

\* GetOffsets when connect, Write or readResponse fails: return offsets, err
GetOffsetsFail ==
    /\ CanCall
    /\ \E time \in TimeMarkers, maxNumOffsets \in 0..NumMsgs,
          e \in {"conn", "io", "eof"} :
          /\ offMax' = EncodeOffsetRequest(time, maxNumOffsets).maxNumOffsets
          /\ Return("GetOffsets", 0, e)
          /\ IF e = "conn"
               THEN conn' = "none" /\ closes' = 0
               ELSE conn' = "closed" /\ closes' = 1
    /\ offsets' = << >>
    /\ offPayload' = << >>
    /\ calls' = calls + 1
    /\ logged' = 0
    /\ ResetTasks
    /\ pollerPc' = "none" /\ watcherPc' = "none"
    /\ UNCHANGED << consumerVars, passVars, handled >>

(***************************************************************************)
(* ConsumeUntilQuit: the caller, the goroutine waiting on quit, and the    *)
(* polling goroutine.                                                      *)
(***************************************************************************)
\* connect succeeds; both goroutines are started; the caller waits on done
ConsumeUntilQuitCall ==
    /\ CanCall
    /\ FreshCall("ConsumeUntilQuit")
    /\ conn' = "open"
    /\ callerPc' = "await"
    /\ watcherPc' = "wait"
    /\ pollerPc' = "check"
    /\ UNCHANGED << consumerVars, passVars, handled >>

\* connect fails: return -1, 0, err
ConsumeUntilQuitConnectFail == ConnectFail("ConsumeUntilQuit", -1)

\* the environment sends the quit signal of a continuous call
SendQuit ==
    /\ \/ op = "ConsumeUntilQuit" /\ watcherPc = "wait"
       \/ op = "ConsumeOnChannel" /\ callerPc = "await_quit"
    /\ quit = 0
    /\ quit' = 1
    /\ UNCHANGED << pollerPc, watcherPc, quitReceived, done >>
    /\ UNCHANGED << consumerVars, callVars, connVars, passVars, chanVars,
                    handled, logged, offsets, offMax, offPayload >>

\* <-quit
WatcherReceive ==
    /\ watcherPc = "wait" /\ op # "panic"
    /\ quit > 0
    /\ quit' = quit - 1
    /\ watcherPc' = "set"
    /\ UNCHANGED << pollerPc, quitReceived, done >>
    /\ UNCHANGED << consumerVars, callVars, connVars, passVars, chanVars,
                    handled, logged, offsets, offMax, offPayload >>

\* a watching goroutine that also closes the connection under the polling
\* goroutine, as the caller of ConsumeOnChannel does
WatcherSetClosing ==
    /\ watcherPc = "set" /\ op # "panic"
    /\ quitReceived' = TRUE
    /\ watcherPc' = "exited"
    /\ conn' = "closed" /\ closes' = closes + 1
    /\ UNCHANGED << pollerPc, quit, done >>
    /\ UNCHANGED << consumerVars, callVars, passVars, chanVars,
                    handled, logged, offsets, offMax, offPayload >>

\* a watching goroutine that receives from quit and ends without writing
\* the flag
WatcherSetSkipped ==
    /\ watcherPc = "set" /\ op # "panic"
    /\ watcherPc' = "exited"
    /\ UNCHANGED << pollerPc, quit, quitReceived, done >>
    /\ UNCHANGED << consumerVars, callVars, connVars, passVars, chanVars,
                    handled, logged, offsets, offMax, offPayload >>

\* quitReceived = true
WatcherSet ==
    /\ watcherPc = "set" /\ op # "panic"
    /\ quitReceived' = TRUE
    /\ watcherPc' = "exited"
    /\ UNCHANGED << pollerPc, quit, done >>
    /\ UNCHANGED << consumerVars, callVars, connVars, passVars, chanVars,
                    handled, logged, offsets, offMax, offPayload >>

\* The values the polling goroutine's read of quitReceived may yield.  The
\* flag is written by one goroutine and read by another without
\* synchronisation: once it is written, a read may yield the new value or
\* still the old one.
FlagReads(flag) == IF flag THEN {TRUE, FALSE} ELSE {FALSE}

\* for !quitReceived: the flag reads false, consumeWithConn is called
PollerCheck ==
    /\ pollerPc = "check" /\ op # "panic"
    /\ FALSE \in FlagReads(quitReceived)
    /\ pollerPc' = "pass"
    /\ StartPass
    /\ UNCHANGED << watcherPc, quit, quitReceived, done >>
    /\ UNCHANGED << consumerVars, callVars, connVars, chanVars,
                    handled, logged, offsets, offMax, offPayload >>

\* for !quitReceived: the flag reads true, the loop is left
PollerExitLoop ==
    /\ pollerPc = "check" /\ op # "panic"
    /\ TRUE \in FlagReads(quitReceived)
    /\ pollerPc' = "send"
    /\ UNCHANGED << watcherPc, quit, quitReceived, done >>
    /\ UNCHANGED << consumerVars, callVars, connVars, passVars, chanVars,
                    handled, logged, offsets, offMax, offPayload >>

\* ConsumeUntilQuit: the errors that are written to the log
Logs(err) == err # "nil" /\ err # "eof"

\* variant: an error that is logged also ends the polling loop
AfterPassStopOnError(err) == IF Logs(err) THEN "send" ELSE "sleep"

\* ConsumeUntilQuit: what the polling goroutine does when consumeWithConn
\* has returned err: it goes on to the sleep, whatever err is
AfterPass(err) == "sleep"

\* consumeWithConn has returned: log the error if there is one and it is
\* not io.EOF
PollerAfterPass ==
    /\ pollerPc = "pass" /\ ppc = "ret" /\ op # "panic"
    /\ logged' = IF Logs(perr) THEN Logged(logged) ELSE logged
    /\ pollerPc' = AfterPass(perr)
    /\ EndPass
    /\ UNCHANGED << watcherPc, quit, quitReceived, done >>
    /\ UNCHANGED << consumerVars, callVars, connVars, chanVars,
                    handled, offsets, offMax, offPayload >>

\* time.Sleep(pollTimeoutMs) is over
PollerSleep ==
    /\ pollerPc = "sleep" /\ op # "panic"
    /\ pollerPc' = "check"
    /\ UNCHANGED << watcherPc, quit, quitReceived, done >>
    /\ UNCHANGED << consumerVars, callVars, connVars, passVars, chanVars,
                    handled, logged, offsets, offMax, offPayload >>

\* done <- true (both continuous calls)
PollerSendDone ==
    /\ pollerPc = "send" /\ op # "panic"
    /\ done = 0
    /\ done' = 1
    /\ pollerPc' = "exited"
    /\ UNCHANGED << watcherPc, quit, quitReceived >>
    /\ UNCHANGED << consumerVars, callVars, connVars, passVars, chanVars,
                    handled, logged, offsets, offMax, offPayload >>

\* variant: the caller returns without waiting for done
DoneNotAwaited == TRUE

\* ConsumeUntilQuit: the caller may pass  <-done
DoneReceived == done > 0

\* ConsumeUntilQuit: what the caller does to the connection before it returns
ConnAtReturn(c) == c

\* <-done; return messageCount, skippedMessageCount, nil
ConsumeUntilQuitReturn ==
    /\ op = "ConsumeUntilQuit" /\ callerPc = "await"
    /\ DoneReceived
    /\ done' = IF done > 0 THEN done - 1 ELSE done
    /\ Return("ConsumeUntilQuit", 0, "nil")
    /\ conn' = ConnAtReturn(conn)
    /\ calls' = calls
    /\ UNCHANGED << closes, pollerPc, watcherPc, quit, quitReceived >>
    /\ UNCHANGED << consumerVars, passVars, chanVars,
                    handled, logged, offsets, offMax, offPayload >>

(***************************************************************************)
(* ConsumeOnChannel: the caller and the polling goroutine.                 *)
(***************************************************************************)
\* connect succeeds; the polling goroutine is started; the caller waits on quit
ConsumeOnChannelCall ==
    /\ CanCall
    /\ FreshCall("ConsumeOnChannel")
    /\ conn' = "open"
    /\ callerPc' = "await_quit"
    /\ pollerPc' = "chantop"
    /\ watcherPc' = "none"
    /\ UNCHANGED << consumerVars, passVars, handled >>

\* connect fails: return -1, err
ConsumeOnChannelConnectFail == ConnectFail("ConsumeOnChannel", -1)

\* for { consumeWithConn(...)
ChanPollerPass ==
    /\ pollerPc = "chantop" /\ op # "panic"
    /\ pollerPc' = "chanpass"
    /\ StartPass
    /\ UNCHANGED << watcherPc, quit, quitReceived, done >>
    /\ UNCHANGED << consumerVars, callVars, connVars, chanVars,
                    handled, logged, offsets, offMax, offPayload >>

\* variant: end-of-stream does not break the loop
BreaksExceptEof(err) == err # "nil" /\ err # "eof"

\* ConsumeOnChannel:  if err != nil { ...; break }
Breaks(err) == err # "nil"

\* consumeWithConn has returned an error: log it unless it is io.EOF; break
ChanPollerBreak ==
    /\ pollerPc = "chanpass" /\ ppc = "ret" /\ op # "panic"
    /\ Breaks(perr)
    /\ logged' = IF perr # "eof" THEN Logged(logged) ELSE logged
    /\ pollerPc' = "send"
    /\ pollErr' = perr
    /\ EndPass
    /\ UNCHANGED << watcherPc, quit, quitReceived, done >>
    /\ UNCHANGED << consumerVars, callVars, connVars, num, msgClosed,
                    handled, offsets, offMax, offPayload >>

\* consumeWithConn has returned without breaking the loop: sleep
ChanPollerContinue ==
    /\ pollerPc = "chanpass" /\ ppc = "ret" /\ op # "panic"
    /\ ~ Breaks(perr)
    /\ pollerPc' = "chansleep"
    /\ pollErr' = perr
    /\ EndPass
    /\ UNCHANGED << watcherPc, quit, quitReceived, done >>
    /\ UNCHANGED << consumerVars, callVars, connVars, num, msgClosed,
                    handled, logged, offsets, offMax, offPayload >>

\* time.Sleep(pollTimeoutMs) is over
ChanPollerSleep ==
    /\ pollerPc = "chansleep" /\ op # "panic"
    /\ pollerPc' = "chantop"
    /\ UNCHANGED << watcherPc, quit, quitReceived, done >>
    /\ UNCHANGED << consumerVars, callVars, connVars, passVars, chanVars,
                    handled, logged, offsets, offMax, offPayload >>

\* <-quit
ChanCallerQuit ==
    /\ op = "ConsumeOnChannel" /\ callerPc = "await_quit"
    /\ quit > 0
    /\ quit' = quit - 1
    /\ callerPc' = "close_conn"
    /\ UNCHANGED << op, ret, lastCall, calls >>
    /\ UNCHANGED << pollerPc, watcherPc, quitReceived, done >>
    /\ UNCHANGED << consumerVars, connVars, passVars, chanVars,
                    handled, logged, offsets, offMax, offPayload >>

\* conn.Close()
ChanCallerCloseConn ==
    /\ op = "ConsumeOnChannel" /\ callerPc = "close_conn"
    /\ conn' = "closed" /\ closes' = closes + 1
    /\ callerPc' = "close_chan"
    /\ UNCHANGED << op, ret, lastCall, calls >>
    /\ UNCHANGED << consumerVars, passVars, taskVars, chanVars,
                    handled, logged, offsets, offMax, offPayload >>

\* close(msgChan)
ChanCallerCloseChan ==
    /\ op = "ConsumeOnChannel" /\ callerPc = "close_chan"
    /\ msgClosed' = TRUE
    /\ callerPc' = "await"
    /\ UNCHANGED << op, ret, lastCall, calls, num, pollErr >>
    /\ UNCHANGED << consumerVars, connVars, passVars, taskVars,
                    handled, logged, offsets, offMax, offPayload >>

\* return num, err: err is the variable assigned by connect in the caller;
\* the err of the polling goroutine is a variable of its own, declared by
\* _, err := inside the goroutine
ReturnedErr(connectErr, goroutineErr) == connectErr

\* <-done; return num, err
ConsumeOnChannelReturn ==
    /\ op = "ConsumeOnChannel" /\ callerPc = "await"
    /\ done > 0
    /\ done' = done - 1
    /\ Return("ConsumeOnChannel", num, ReturnedErr("nil", pollErr))
    /\ calls' = calls
    /\ UNCHANGED << pollerPc, watcherPc, quit, quitReceived >>
    /\ UNCHANGED << consumerVars, connVars, passVars, chanVars,
                    handled, logged, offsets, offMax, offPayload >>

(***************************************************************************)
(* The specification.                                                      *)
(***************************************************************************)
Next ==
    \/ PassWrite \/ PassWriteFail \/ PassRead \/ PassReadFail
    \/ PassDecodeFail \/ PassDecode \/ PassHandle \/ PassHandleClosed
    \/ PassScanExit
    \/ ConsumeCall \/ ConsumeConnectFail \/ ConsumeReturn
    \/ GetOffsets \/ GetOffsetsPanic \/ GetOffsetsFail
    \/ ConsumeUntilQuitCall \/ ConsumeUntilQuitConnectFail \/ SendQuit
    \/ WatcherReceive \/ WatcherSet
    \/ PollerCheck \/ PollerExitLoop \/ PollerAfterPass \/ PollerSleep
    \/ PollerSendDone \/ ConsumeUntilQuitReturn
    \/ ConsumeOnChannelCall \/ ConsumeOnChannelConnectFail
    \/ ChanPollerPass \/ ChanPollerBreak \/ ChanPollerContinue
    \/ ChanPollerSleep
    \/ ChanCallerQuit \/ ChanCallerCloseConn \/ ChanCallerCloseChan
    \/ ConsumeOnChannelReturn

Spec == Init /\ [][Next]_vars

\* The steps of the goroutine that waits on quit, of the polling goroutine
\* (those of consumeWithConn included) and of the caller of a continuous call.
Watcher == WatcherReceive \/ WatcherSet

Poller ==
    \/ PollerCheck \/ PollerExitLoop \/ PollerAfterPass
    \/ PollerSleep \/ PollerSendDone
    \/ PassWrite \/ PassWriteFail \/ PassRead \/ PassReadFail
    \/ PassDecodeFail \/ PassDecode \/ PassHandle \/ PassScanExit

Caller == ConsumeUntilQuitReturn

\* Every goroutine that can take a step eventually takes one: network
\* operations, handler calls and sleeps complete, and the Go scheduler
\* runs every runnable goroutine.  The polling goroutine loads quitReceived
\* anew in every iteration of its loop, after a Write, a read and a Sleep:
\* once the flag is written, the loads do not yield the old value for ever
\* (strong fairness of the loop exit, which is enabled at every test of
\* the flag from then on).
LiveSpec ==
    /\ Spec
    /\ WF_vars(Watcher) /\ WF_vars(Poller) /\ WF_vars(Caller)
    /\ SF_vars(PollerExitLoop)

(***************************************************************************)
(* Payloads as the claims describe them.                                   *)
(***************************************************************************)
\* A payload read as whole frames from its start: the positions at which
\* the whole frames start, and what is left after the last whole frame.
RECURSIVE WholeFrames(_, _, _)
WholeFrames(pl, pos, starts) ==
    LET rest == SliceFrom(pl, pos) IN
    IF Len(rest) >= 8 /\ BigEndian(rest, 4) >= 4 /\ 4 + BigEndian(rest, 4) <= Len(rest)
    THEN WholeFrames(pl, pos + 4 + BigEndian(rest, 4), Append(starts, pos))
    ELSE [starts |-> starts, rest |-> rest]

\* the payload is K >= 1 well-formed frames and nothing else
IsFrames(pl) == pl # << >> /\ WholeFrames(pl, 0, << >>).rest = << >>

\* the payload is j >= 0 well-formed frames and then a frame whose declared
\* length exceeds the bytes that remain
IsTruncated(pl) ==
    LET rest == WholeFrames(pl, 0, << >>).rest IN
    Len(rest) >= 4 /\ BigEndian(rest, 4) > Len(rest) - 4

\* the sum of the lengths of the log's frames that start at the offsets of s
RECURSIVE FrameLenSum(_)
FrameLenSum(s) ==
    IF s = << >> THEN 0 ELSE FrameLenAt(Head(s)) + FrameLenSum(Tail(s))

\* the last n elements of s
LastN(s, n) == SubSeq(s, Len(s) - n + 1, Len(s))

\* a step in which consumeWithConn is entered
PassStarted == ppc # "write" /\ ppc' = "write"

\* a step in which the handler is called
HandlerCalled == Len(passDelivered') > Len(passDelivered)

(***************************************************************************)
(* C1.  A pass over a payload that is K >= 1 well-formed frames invokes    *)
(* the handler exactly K times, gives the i-th message the offset          *)
(* (cursor before the pass + position of its frame in the payload),        *)
(* returns K and no error, and advances the cursor by the sum of the       *)
(* frames' lengths, which is the length of the payload.                    *)
(***************************************************************************)
C1_WellFormedPass ==
    (ppc = "ret" /\ IsFrames(payload)) =>
        LET starts == WholeFrames(payload, 0, << >>).starts IN
        /\ perr = "nil"
        /\ pnum = Len(starts)
        /\ passDelivered = [i \in 1..Len(starts) |-> preOffset + starts[i]]
        /\ \A i \in 1..(Len(starts) - 1) : passDelivered[i] < passDelivered[i + 1]
        /\ LastN(handled, Len(starts)) = passDelivered
        /\ offset = preOffset + Len(payload)
        /\ offset = preOffset + FrameLenSum(passDelivered)

C1_Witness ==
    /\ ppc = "ret" /\ IsFrames(payload)
    /\ preOffset > 0
    /\ pnum = 2 /\ Len(passDelivered) = 2
    /\ offset = Len(Log)

(***************************************************************************)
(* C2.  Over any sequence of passes the handler is given every message     *)
(* once, in strictly increasing offset order: no offset is delivered twice *)
(* and none is lower than one delivered before.                            *)
(***************************************************************************)
C2_ExactlyOnceInOrder ==
    \A i \in 1..Len(handled) : \A j \in 1..Len(handled) :
        i < j => handled[i] < handled[j]

(***************************************************************************)
(* C3.  A pass that meets a truncated frame after j >= 0 whole frames      *)
(* returns the decoding error with count j; the j handler invocations      *)
(* stand and the cursor is the one before the pass.                        *)
(***************************************************************************)
C3_TruncatedPass ==
    (ppc = "ret" /\ IsTruncated(payload)) =>
        LET starts == WholeFrames(payload, 0, << >>).starts IN
        /\ perr = "decode"
        /\ pnum = Len(starts)
        /\ passDelivered = [i \in 1..Len(starts) |-> preOffset + starts[i]]
        /\ LastN(handled, Len(starts)) = passDelivered
        /\ offset = preOffset

C3_Witness ==
    /\ ppc = "ret" /\ IsTruncated(payload)
    /\ perr = "decode"
    /\ pnum = 1 /\ passDelivered = << preOffset >>
    /\ offset = preOffset /\ preOffset > 0

(***************************************************************************)
(* C4.  The cursor never regresses: no step of any call lowers offset.     *)
(***************************************************************************)
C4_CursorMonotonic == [][offset' >= offset]_vars

C4_Witness ==
    /\ calls = MaxCalls
    /\ op = "idle"
    /\ base > 0 /\ offset = Len(Log)

(***************************************************************************)
(* C5.  Between passes the cursor is the base offset plus the sum of the   *)
(* frame lengths of all messages delivered to the handler so far.          *)
(***************************************************************************)
C5_CursorIsSumOfDelivered ==
    (ppc = "none" /\ op # "panic") => offset = base + FrameLenSum(handled)

(***************************************************************************)
(* C6.  Once ConsumeUntilQuit has returned after the quit signal (the      *)
(* caller has received from done), no handler invocation follows.          *)
(***************************************************************************)
ReturnedFromUntilQuit ==
    op = "idle" /\ lastCall = "ConsumeUntilQuit" /\ ret.err = "nil"

C6_NoHandlerAfterReturn ==
    [][ReturnedFromUntilQuit => (~ HandlerCalled /\ handled' = handled)]_vars

C6_Witness ==
    /\ ReturnedFromUntilQuit
    /\ quitReceived
    /\ handled # << >>

(***************************************************************************)
(* C7.  When ConsumeUntilQuit returns after the quit signal, its           *)
(* connection has been closed exactly once.                                *)
(***************************************************************************)
C7_ClosedExactlyOnce ==
    ReturnedFromUntilQuit => (conn = "closed" /\ closes = 1)

(***************************************************************************)
(* C8.  GetOffsets returns at most maxNumOffsets offsets: the first        *)
(* min(maxNumOffsets, offsets in the buffer) offsets of the payload.       *)
(***************************************************************************)
\* the whole 8-byte offsets that follow the count field of the payload
RECURSIVE PayloadOffsets(_, _)
PayloadOffsets(pl, pos) ==
    IF pos + 8 <= Len(pl)
    THEN << BigEndian(SliceFrom(pl, pos), 8) >> \o PayloadOffsets(pl, pos + 8)
    ELSE << >>

C8_AtMostMaxNumOffsets ==
    (op = "idle" /\ lastCall = "GetOffsets" /\ ret.err = "nil" /\ Len(offPayload) > 4) =>
        LET inBuffer == PayloadOffsets(offPayload, 4) IN
        /\ Len(offsets) <= offMax
        /\ offsets = SubSeq(inBuffer, 1, Min(offMax, Len(inBuffer)))

(***************************************************************************)
(* C9.  In ConsumeOnChannel the polling loop ends on the first error of    *)
(* consumeWithConn that is not end-of-stream, and goes on after an         *)
(* end-of-stream (as stated); as amended: it ends on the first error of    *)
(* any kind, end-of-stream included, and goes on only after a pass         *)
(* without error.                                                          *)
(***************************************************************************)
ChanPollerTakesResult ==
    /\ op = "ConsumeOnChannel" /\ pollerPc = "chanpass" /\ ppc = "ret"
    /\ pollerPc' # pollerPc

C9_BreaksOnAnyError ==
    [][ChanPollerTakesResult =>
          IF perr = "nil" THEN pollerPc' = "chansleep" ELSE pollerPc' = "send"]_vars

C9_EndOfStreamSwallowed ==
    [][ChanPollerTakesResult =>
          IF perr \in {"nil", "eof"} THEN pollerPc' = "chansleep"
                                     ELSE pollerPc' = "send"]_vars

\* the loop was left without anything logged: it was left on end-of-stream
C9_Witness ==
    /\ op = "ConsumeOnChannel"
    /\ pollerPc = "send"
    /\ logged = 0
    /\ conn = "open"

(***************************************************************************)
(* C10.  In ConsumeUntilQuit no error of consumeWithConn ends the polling  *)
(* loop: after every pass the goroutine sleeps and polls again; it leaves  *)
(* the loop only once quitReceived is set; and the call returns a nil      *)
(* error.                                                                  *)
(***************************************************************************)
C10_ErrorsDoNotStopPolling ==
    [][/\ (op = "ConsumeUntilQuit" /\ pollerPc = "pass" /\ ppc = "ret"
             /\ pollerPc' # pollerPc) => pollerPc' = "sleep"
       /\ (op' = "ConsumeUntilQuit" /\ pollerPc' \in {"send", "exited"})
             => quitReceived'
       /\ (op = "ConsumeUntilQuit" /\ callerPc = "await" /\ op' = "idle")
             => (ret'.err = "nil" /\ quitReceived)]_vars

\* the call has returned nil although passes of it ended in errors
C10_Witness ==
    /\ ReturnedFromUntilQuit
    /\ logged >= 2
    /\ pollerPc = "exited"

(***************************************************************************)
(* C11.  When ConsumeOnChannel returns after cancellation, it returns the  *)
(* number of messages delivered to msgChan together with the last error    *)
(* the polling loop met.                                                   *)
(***************************************************************************)
C11_ReturnsLastPollError ==
    (op = "idle" /\ lastCall = "ConsumeOnChannel" /\ ret.err # "conn")
        => (ret.num = num /\ ret.err = pollErr)

(***************************************************************************)
(* C12.  Once its connection is open, Consume makes exactly one            *)
(* consumeWithConn pass, closes the connection exactly once on every exit  *)
(* path (success, I/O error, decode error), and returns the count and the  *)
(* error of that pass unchanged.                                           *)
(***************************************************************************)
C12_SinglePassClosedOnce ==
    [][/\ (op # "Consume" /\ op' = "Consume")
             => (PassStarted /\ conn' = "open" /\ closes' = 0)
       /\ (op = "Consume" /\ op' = "Consume")
             => (~ PassStarted /\ conn' = "open" /\ closes' = 0)
       /\ (op = "Consume" /\ op' # "Consume")
             => /\ op' = "idle" /\ lastCall' = "Consume"
                /\ ppc = "ret"
                /\ ~ PassStarted
                /\ ret' = [num |-> pnum, err |-> perr]
                /\ conn' = "closed" /\ closes' = 1]_vars

\* a Consume whose pass ended in a decode error after one message has
\* returned (1, decode error) and closed its connection once
C12_Witness ==
    /\ op = "idle" /\ lastCall = "Consume"
    /\ ret = [num |-> 1, err |-> "decode"]
    /\ conn = "closed" /\ closes = 1

(***************************************************************************)
(* C13.  A consume response whose declared length is at most 2 yields no   *)
(* handler invocation, the count 0 and no error, and leaves the cursor     *)
(* where it was.                                                           *)
(***************************************************************************)
C13_ShortResponseIsEmpty ==
    [][(/\ ppc = "read" /\ ppc' # "read"
        /\ perr' \notin {"io", "eof"}
        /\ length' <= 2)
          => /\ ppc' = "ret"
             /\ pnum' = 0 /\ perr' = "nil"
             /\ offset' = offset
             /\ handled' = handled /\ ~ HandlerCalled
             /\ passDelivered' = << >>]_vars

\* a pass on a response of length 2 has returned 0, nil
C13_Witness ==
    /\ ppc = "ret"
    /\ length = 2 /\ Len(payload) = 2
    /\ pnum = 0 /\ perr = "nil"
    /\ offset = preOffset

(***************************************************************************)
(* C14.  GetOffsets on a response whose length is at most 4 returns an     *)
(* empty list of offsets and no error; and no GetOffsets call changes the  *)
(* cursor of the consumer.                                                 *)
(***************************************************************************)
GetOffsetsStep ==
    /\ op = "idle" /\ calls' = calls + 1
    /\ lastCall' = "GetOffsets" \/ op' = "panic"

C14_ShortOffsetResponse ==
    [][GetOffsetsStep
         => /\ offset' = offset
            /\ (/\ Len(offPayload') <= 4
                /\ op' = "panic" \/ ret'.err = "nil")
                  => /\ op' = "idle"
                     /\ ret' = [num |-> 0, err |-> "nil"]
                     /\ offsets' = << >>]_vars

\* GetOffsets has returned the empty list on a 4-byte response whose count
\* field promises NumMsgs offsets, on a consumer whose cursor has moved
C14_Witness ==
    /\ op = "idle" /\ lastCall = "GetOffsets"
    /\ ret = [num |-> 0, err |-> "nil"]
    /\ offPayload = PutBigEndian(NumMsgs, 4)
    /\ offsets = << >>
    /\ offset > base

(***************************************************************************)
(* C15.  In ConsumeOnChannel, in every interleaving of the caller and the  *)
(* polling goroutine, the goroutine never sends a message on msgChan       *)
(* after msgChan has been closed (a send that panics), and the goroutine   *)
(* has stopped when ConsumeOnChannel returns.                              *)
(***************************************************************************)
C15_NoSendAfterClose ==
    /\ ~ (op = "panic" /\ msgClosed /\ ppc = "handler")
    /\ (op = "idle" /\ lastCall = "ConsumeOnChannel" /\ ret.err # "conn")
          => pollerPc = "exited"

(***************************************************************************)
(* C16.  In both continuous modes cancellation is cooperative: a request / *)
(* response exchange that is in flight when the signal arrives is always   *)
(* completed, so the connection stays open under it; the loop is left      *)
(* only between passes; and no pass is started once the loop is left.      *)
(***************************************************************************)
Continuous == {"ConsumeUntilQuit", "ConsumeOnChannel"}

InFlight == ppc \in {"write", "read"}

LoopLeft == pollerPc \in {"send", "exited"}

C16_CooperativeInBothModes ==
    /\ [](op \in Continuous /\ InFlight => conn = "open")
    /\ [][(op \in Continuous /\ LoopLeft)
            => (~ PassStarted /\ ~ HandlerCalled /\ handled' = handled)]_vars

\* As it holds: ConsumeUntilQuit is cooperative, it leaves the loop only at
\* the test of quitReceived between two passes and never closes the
\* connection under an exchange; ConsumeOnChannel has no such test, its
\* loop is left only on the error of a pass.  In both, no pass is started
\* once the loop is left.
C16_CooperativeUntilQuit ==
    /\ [](op = "ConsumeUntilQuit" /\ InFlight => conn = "open")
    /\ [][/\ (op = "ConsumeUntilQuit" /\ ~ LoopLeft /\ LoopLeft')
                => (pollerPc = "check" /\ ppc = "none" /\ quitReceived)
          /\ (op = "ConsumeOnChannel" /\ ~ LoopLeft /\ LoopLeft')
                => (pollerPc = "chanpass" /\ ppc = "ret" /\ perr # "nil")
          /\ (op \in Continuous /\ LoopLeft)
                => (~ PassStarted /\ ~ HandlerCalled /\ handled' = handled)]_vars

\* ConsumeUntilQuit: the flag is set while an exchange is in flight on the
\* open connection, with a message of the call already handled
C16_Witness ==
    /\ op = "ConsumeUntilQuit"
    /\ quitReceived
    /\ pollerPc = "pass" /\ ppc = "read"
    /\ conn = "open"
    /\ handled # << >>

(***************************************************************************)
(* C17.  Liveness of shutdown.  In ConsumeUntilQuit, if a value is sent on *)
(* quit and every network operation, handler call and sleep completes      *)
(* (weak fairness on the watching and the polling goroutine), then the     *)
(* polling goroutine eventually observes quitReceived and sends on done,   *)
(* and ConsumeUntilQuit eventually returns.                                *)
(***************************************************************************)
QuitDelivered == op = "ConsumeUntilQuit" /\ quit > 0

C17_ShutdownCompletes ==
    /\ QuitDelivered ~> (op = "ConsumeUntilQuit" /\ quitReceived)
    /\ QuitDelivered ~> (op = "ConsumeUntilQuit" /\ pollerPc = "exited")
    /\ QuitDelivered ~> (op = "idle" /\ lastCall = "ConsumeUntilQuit")

\* ConsumeUntilQuit has returned after a shutdown during which a message
\* was handled: both goroutines have ended and done has been received
C17_Witness ==
    /\ op = "idle" /\ lastCall = "ConsumeUntilQuit"
    /\ ret = [num |-> 0, err |-> "nil"]
    /\ quitReceived
    /\ watcherPc = "exited" /\ pollerPc = "exited"
    /\ quit = 0 /\ done = 0
    /\ handled # << >>

(***************************************************************************)
(* C18.  A consumeWithConn pass whose Write or readResponse fails returns  *)
(* that error at once, with no handler call and the cursor unchanged; and  *)
(* a Consume, ConsumeUntilQuit, ConsumeOnChannel or GetOffsets whose       *)
(* connect fails returns the connection error without starting a polling   *)
(* goroutine, calling a handler or changing the cursor.                    *)
(***************************************************************************)
C18_FailuresLeaveNoTrace ==
    [][/\ (ppc \in {"write", "read"} /\ perr' # "nil")
             => /\ ppc' = "ret"
                /\ pnum' = -1 /\ perr' \in {"io", "eof"}
                /\ offset' = offset
                /\ handled' = handled /\ ~ HandlerCalled /\ num' = num
                /\ passDelivered' = << >>
       /\ (calls' = calls + 1 /\ op' = "idle" /\ ret'.err = "conn")
             => /\ conn' = "none" /\ closes' = 0
                /\ offset' = offset
                /\ handled' = handled /\ ~ HandlerCalled /\ offsets' = << >>
                /\ ~ PassStarted /\ ppc' = "none"
                /\ pollerPc' = "none" /\ watcherPc' = "none"]_vars

\* a pass of a consumer whose cursor has moved has returned the error of
\* its readResponse, and the cursor is where it was before the pass
C18_Witness ==
    /\ ppc = "ret"
    /\ pnum = -1 /\ perr = "eof"
    /\ passDelivered = << >>
    /\ offset = preOffset /\ offset > base

(***************************************************************************)
(* C19.  In GetOffsets, for every response of length above 4 and every     *)
(* value of the count field, each 8-byte offset read lies inside the       *)
(* payload: a read at position p has p + 8 <= length, also when the bytes  *)
(* after the count are not a multiple of 8 or fewer than the count         *)
(* announces.  A read past the end is a panic of Uint64.                   *)
(***************************************************************************)
\* the position of the k-th 8-byte read of the loop
OffsetReadAt(k) == 4 + 8 * (k - 1)

C19_OffsetReadsInBounds ==
    Len(offPayload) > 4
        => /\ \A k \in 1..Len(offsets) :
                 OffsetReadAt(k) + 8 <= Len(offPayload)
           /\ (op = "panic" /\ ppc = "none")
                 => OffsetReadAt(Len(offsets) + 1) + 8 <= Len(offPayload)

(***************************************************************************)
(* C20.  In the scan of consumeWithConn, for every response of length      *)
(* above 2 (length 3 included, where the uint32 length - 4 wraps), Decode  *)
(* is attempted at currentOffset only when at least 4 bytes remain,        *)
(* currentOffset + 4 <= length; and currentOffset grows by at least 4 with *)
(* every decoded message.                                                  *)
(***************************************************************************)
C20_DecodeOnlyWithLengthPrefix ==
    /\ [](ppc = "scan" /\ LoopCond(currentOffset, length)
             => currentOffset + 4 <= length)
    /\ [][(ppc = "scan" /\ ppc' = "handler")
             => currentOffset' >= currentOffset + 4]_vars

====
